---------------------------- MODULE Spec2Model ----------------------------
(***************************************************************************)
(* A model of PyTMX (src/pytmx/pytmx.py): the GID codec, the GID registry  *)
(* owned by a TiledMap, the map loader TiledMap.from_xml, Object.from_xml, *)
(* the tile property lookups and handle_bool.                              *)
(*                                                                         *)
(* A raw GID is a 32-bit unsigned integer.  TLC's integers are 32-bit      *)
(* signed, so a 32-bit word is kept as its two 16-bit halves [hi, lo],     *)
(* value hi * 2^16 + lo, and the bitwise operators of the source work on   *)
(* the halves.                                                             *)
(***************************************************************************)
EXTENDS Integers, Sequences, FiniteSets, TLC

(***************************************************************************)
(* Bounds of the model.                                                    *)
(***************************************************************************)
\* the base GIDs passed to register_gid and map_gid are 0..MaxBaseGid
MaxBaseGid == 2
\* at most this many register_gid calls are made on one map
MaxCalls == 4
\* at most this many register_gid calls precede TileLayer.from_xml
MaxPriorCalls == 1
\* a <layer> node holds at most this many raw GIDs
MaxLayerLen == 2
\* a <map> node has at most this many children
MaxChildren == 3
\* a <polygon> or <polyline> declares at most this many points
MaxPoints == 2
\* a numeral handed to handle_bool has at most this many digits
MaxDigits == 2

(***************************************************************************)
(* 32-bit words and the bitwise operators of Python on them.               *)
(***************************************************************************)
Half == 2^16

Word(h, l) == [hi |-> h, lo |-> l]

RECURSIVE BitAnd(_, _)
BitAnd(a, b) ==
    IF a = 0 \/ b = 0 THEN 0
    ELSE (a % 2) * (b % 2) + 2 * BitAnd(a \div 2, b \div 2)

RECURSIVE BitOr(_, _)
BitOr(a, b) ==
    IF a = 0 THEN b
    ELSE IF b = 0 THEN a
    ELSE (IF a % 2 = 1 \/ b % 2 = 1 THEN 1 ELSE 0)
         + 2 * BitOr(a \div 2, b \div 2)

\* x & y
And32(x, y) == Word(BitAnd(x.hi, y.hi), BitAnd(x.lo, y.lo))
\* x | y
Or32(x, y) == Word(BitOr(x.hi, y.hi), BitOr(x.lo, y.lo))
\* ~x, as far as "& ~x" with a 32-bit left operand can tell
Not32(x) == Word(Half - 1 - x.hi, Half - 1 - x.lo)
\* the integer a word stands for (defined below 2^31 only)
ToInt(x) == x.hi * Half + x.lo

(***************************************************************************)
(* The constants of pytmx/constants.py, imported at line 10.               *)
(***************************************************************************)
TRANS_FLIPX == 1
TRANS_FLIPY == 2
TRANS_ROT == 4
\* 1 << 31, 1 << 30, 1 << 29
GID_TRANS_FLIPX == Word(2^15, 0)
GID_TRANS_FLIPY == Word(2^14, 0)
GID_TRANS_ROT == Word(2^13, 0)

(***************************************************************************)
(* decode_gid                                                              *)
(***************************************************************************)
\* a slip of decode_gid: the rotate bit is tested but left in the gid
decode_gid_keeps_rot(raw_gid) ==
    LET f1 == IF And32(raw_gid, GID_TRANS_FLIPX) = GID_TRANS_FLIPX
              THEN TRANS_FLIPX ELSE 0
        f2 == IF And32(raw_gid, GID_TRANS_FLIPY) = GID_TRANS_FLIPY
              THEN TRANS_FLIPY ELSE 0
        f3 == IF And32(raw_gid, GID_TRANS_ROT) = GID_TRANS_ROT
              THEN TRANS_ROT ELSE 0
        gid == And32(raw_gid, Not32(Or32(GID_TRANS_FLIPX, GID_TRANS_FLIPY)))
    IN  [gid |-> ToInt(gid), flags |-> f1 + f2 + f3]

decode_gid(raw_gid) ==
    LET f1 == IF And32(raw_gid, GID_TRANS_FLIPX) = GID_TRANS_FLIPX
              THEN TRANS_FLIPX ELSE 0
        f2 == IF And32(raw_gid, GID_TRANS_FLIPY) = GID_TRANS_FLIPY
              THEN TRANS_FLIPY ELSE 0
        f3 == IF And32(raw_gid, GID_TRANS_ROT) = GID_TRANS_ROT
              THEN TRANS_ROT ELSE 0
        gid == And32(raw_gid,
                     Not32(Or32(Or32(GID_TRANS_FLIPX, GID_TRANS_FLIPY),
                                GID_TRANS_ROT)))
    IN  [gid |-> ToInt(gid), flags |-> f1 + f2 + f3]

(***************************************************************************)
(* The GID registry of a TiledMap.  A map object is the record             *)
(* [imagemap, gidmap, maxgid, tile_properties]:                            *)
(*   imagemap  dict: (tiled_gid, flags) -> (gid, flags); (0, 0) -> 0       *)
(*   gidmap    defaultdict(list): tiled_gid -> list of (gid, flags)        *)
(*   maxgid    the next compact GID to hand out                            *)
(***************************************************************************)
\* d[k] = v for a dict d kept as a function
Put(d, k, v) == [x \in DOMAIN d \cup {k} |-> IF x = k THEN v ELSE d[x]]

\* TiledMap.__init__
TiledMap_init ==
    [imagemap |-> Put(<<>>, <<0, 0>>, 0),
     gidmap |-> <<>>,
     maxgid |-> 1,
     tile_properties |-> <<>>]

\* defaultdict(list).__getitem__: a missing key is inserted with an empty list
GidmapTouch(gm, k) == IF k \in DOMAIN gm THEN gm ELSE Put(gm, k, <<>>)

\* a slip of register_gid: the forward table is not consulted
register_gid_always_allocates(m, tiled_gid, flags) ==
    IF tiled_gid # 0
    THEN LET gid == m.maxgid
             gm == GidmapTouch(m.gidmap, tiled_gid)
         IN  [m |-> [m EXCEPT !.maxgid = gid + 1,
                              !.imagemap = Put(@, <<tiled_gid, flags>>,
                                               <<gid, flags>>),
                              !.gidmap = Put(gm, tiled_gid,
                                             Append(gm[tiled_gid],
                                                    <<gid, flags>>))],
              ret |-> gid]
    ELSE [m |-> m, ret |-> 0]

\* a slip of register_gid: tiled_gid 0 is not passed through
register_gid_no_zero_check(m, tiled_gid, flags) ==
    IF <<tiled_gid, flags>> = <<0, 0>>
    THEN [m |-> m, ret |-> 0]
    ELSE IF <<tiled_gid, flags>> \in DOMAIN m.imagemap
    THEN [m |-> m, ret |-> m.imagemap[<<tiled_gid, flags>>][1]]
    ELSE LET gid == m.maxgid
             gm == GidmapTouch(m.gidmap, tiled_gid)
         IN  [m |-> [m EXCEPT !.maxgid = gid + 1,
                              !.imagemap = Put(@, <<tiled_gid, flags>>,
                                               <<gid, flags>>),
                              !.gidmap = Put(gm, tiled_gid,
                                             Append(gm[tiled_gid],
                                                    <<gid, flags>>))],
              ret |-> gid]

\* a slip of register_gid: the counter is advanced before it is read
register_gid_pre_increment(m, tiled_gid, flags) ==
    IF tiled_gid # 0
    THEN IF <<tiled_gid, flags>> \in DOMAIN m.imagemap
         THEN [m |-> m, ret |-> m.imagemap[<<tiled_gid, flags>>][1]]
         ELSE LET gid == m.maxgid + 1
                  gm == GidmapTouch(m.gidmap, tiled_gid)
              IN  [m |-> [m EXCEPT !.maxgid = gid,
                                   !.imagemap = Put(@, <<tiled_gid, flags>>,
                                                    <<gid, flags>>),
                                   !.gidmap = Put(gm, tiled_gid,
                                                  Append(gm[tiled_gid],
                                                         <<gid, flags>>))],
                   ret |-> gid]
    ELSE [m |-> m, ret |-> 0]

\* a slip of register_gid: the reverse table is not written
register_gid_forward_only(m, tiled_gid, flags) ==
    IF tiled_gid # 0
    THEN IF <<tiled_gid, flags>> \in DOMAIN m.imagemap
         THEN [m |-> m, ret |-> m.imagemap[<<tiled_gid, flags>>][1]]
         ELSE LET gid == m.maxgid
              IN  [m |-> [m EXCEPT !.maxgid = gid + 1,
                                   !.imagemap = Put(@, <<tiled_gid, flags>>,
                                                    <<gid, flags>>)],
                   ret |-> gid]
    ELSE [m |-> m, ret |-> 0]

\* TiledMap.register_gid: the map after the call and the value returned
register_gid(m, tiled_gid, flags) ==
    IF tiled_gid # 0
    THEN IF <<tiled_gid, flags>> \in DOMAIN m.imagemap
         THEN [m |-> m, ret |-> m.imagemap[<<tiled_gid, flags>>][1]]
         ELSE LET gid == m.maxgid
                  gm == GidmapTouch(m.gidmap, tiled_gid)
              IN  [m |-> [m EXCEPT !.maxgid = gid + 1,
                                   !.imagemap = Put(@, <<tiled_gid, flags>>,
                                                    <<gid, flags>>),
                                   !.gidmap = Put(gm, tiled_gid,
                                                  Append(gm[tiled_gid],
                                                         <<gid, flags>>))],
                   ret |-> gid]
    ELSE [m |-> m, ret |-> 0]

\* a slip of map_gid: the newest allocation is returned first
RECURSIVE Reverse(_)
Reverse(s) == IF s = <<>> THEN <<>> ELSE Append(Reverse(Tail(s)), Head(s))

map_gid_newest_first(m, tiled_gid) ==
    LET gm == GidmapTouch(m.gidmap, tiled_gid)
    IN  [m |-> [m EXCEPT !.gidmap = gm], ret |-> Reverse(gm[tiled_gid])]

\* TiledMap.map_gid: the map after the call and the list returned.  gidmap is
\* a defaultdict, so the lookup never raises KeyError: a missing key is
\* inserted with an empty list, which is returned.
map_gid(m, tiled_gid) ==
    LET gm == GidmapTouch(m.gidmap, tiled_gid)
    IN  [m |-> [m EXCEPT !.gidmap = gm], ret |-> gm[tiled_gid]]

(***************************************************************************)
(* The payload of a <data> node, as the XML tree hands it to the loader.   *)
(* Text is a sequence of one-character strings.  A byte string is the      *)
(* record [comp, bytes]: the bytes that zlib ("zlib") or gzip ("gzip")     *)
(* inflate to `bytes`, or `bytes` themselves ("none").  A node is          *)
(*   [width, height   the attributes the <layer> declares                  *)
(*    encoding, compression   the attributes of <data> ("none": absent)    *)
(*    tiles    the gid attribute of each <tile> child of <data>            *)
(*    text     the text of <data> when it is CSV                           *)
(*    blob     the byte string the text of <data> is the base64 of]        *)
(***************************************************************************)
Digits == <<"0", "1", "2", "3", "4", "5", "6", "7", "8", "9">>
DigitVal(c) == (CHOOSE i \in 1 .. 10 : Digits[i] = c) - 1
IsDigit(c) == \E i \in 1 .. 10 : Digits[i] = c
\* str.strip() removes these from one-character strings
Whitespace == {" ", "\n", "\t", "\r"}

\* the decimal numeral of a word, as Tiled writes a GID
RECURSIVE Decimal(_)
Decimal(w) ==
    LET r == w.hi % 10
        t == r * Half + w.lo
        q == Word(w.hi \div 10, t \div 10)
        d == <<Digits[(t % 10) + 1]>>
    IN  IF q = Word(0, 0) THEN d ELSE Decimal(q) \o d

\* the four bytes of a word, least significant first, as Tiled writes a GID
LEBytes(w) == <<w.lo % 256, w.lo \div 256, w.hi % 256, w.hi \div 256>>

RECURSIVE AllLEBytes(_)
AllLEBytes(gids) ==
    IF gids = <<>> THEN <<>> ELSE LEBytes(Head(gids)) \o AllLEBytes(Tail(gids))

\* the CSV text of a layer: a line break, then the numerals separated by
\* commas with a line break after each row of `width` numerals
RECURSIVE CsvFrom(_, _, _)
CsvFrom(gids, n, width) ==
    IF gids = <<>> THEN <<"\n">>
    ELSE Decimal(Head(gids))
         \o (IF Len(gids) = 1 THEN <<>>
             ELSE IF width > 0 /\ n % width = 0 THEN <<",", "\n">>
             ELSE <<",">>)
         \o CsvFrom(Tail(gids), n + 1, width)

CsvText(gids, width) == <<"\n">> \o CsvFrom(gids, 1, width)

NoBlob == [comp |-> "none", bytes |-> <<>>]

\* the <layer> node Tiled writes for the raw GIDs `gids` of a width x height
\* layer under an encoding and a compression
LayerNode(width, height, encoding, compression, gids) ==
    [width |-> width, height |-> height,
     encoding |-> encoding, compression |-> compression,
     tiles |-> IF encoding = "none"
               THEN [i \in 1 .. Len(gids) |-> Decimal(gids[i])] ELSE <<>>,
     text |-> IF encoding = "csv" THEN CsvText(gids, width) ELSE <<>>,
     blob |-> IF encoding \notin {"none", "csv"}
              THEN [comp |-> compression, bytes |-> AllLEBytes(gids)]
              ELSE NoBlob]

(***************************************************************************)
(* The payload decoder of TileLayer.from_xml (lines 541-593).  An iterator *)
(* is the record [vals, stop]: the values it yields, and the exception the *)
(* next() after them raises.  next_gid = None is [<<>>, "TypeError"].      *)
(***************************************************************************)
\* int(text) for a decimal numeral: the value, most significant half
\* unnormalised above 32 bits
RECURSIVE ParseInt(_, _)
ParseInt(text, acc) ==
    IF text = <<>> THEN acc
    ELSE LET t == acc.lo * 10 + DigitVal(Head(text))
         IN  ParseInt(Tail(text), Word(acc.hi * 10 + t \div Half, t % Half))

\* whether int(text) returns rather than raising ValueError
IsNumeral(text) ==
    /\ text # <<>>
    /\ \A i \in 1 .. Len(text) : IsDigit(text[i])

\* "".join(c.strip() for c in text.strip()): every whitespace character
\* goes, since the generator walks the characters of the text
StripJoin(text) == SelectSeq(text, LAMBDA c : c \notin Whitespace)

\* text.split(","): the fields, at least one
RECURSIVE Split(_, _)
Split(text, field) ==
    IF text = <<>> THEN <<field>>
    ELSE IF Head(text) = "," THEN <<field>> \o Split(Tail(text), <<>>)
    ELSE Split(Tail(text), Append(field, Head(text)))

\* map(int, fields): yields the values up to the first field int() refuses
RECURSIVE MapInt(_)
MapInt(fields) ==
    IF fields = <<>> THEN [vals |-> <<>>, stop |-> "StopIteration"]
    ELSE IF ~IsNumeral(Head(fields))
         THEN [vals |-> <<>>, stop |-> "ValueError"]
         ELSE LET rest == MapInt(Tail(fields))
              IN  [vals |-> <<ParseInt(Head(fields), Word(0, 0))>> \o rest.vals,
                   stop |-> rest.stop]

\* a slip of Unpack: struct.Struct('>L'), most significant byte first
Unpack_big_endian(b) == Word(b[1] * 256 + b[2], b[3] * 256 + b[4])

\* struct.Struct('<L').unpack on four bytes
Unpack(b) == Word(b[4] * 256 + b[3], b[2] * 256 + b[1])

\* (fmt.unpack(i)[0] for i in (data[i:i + 4] for i in range(0, len, 4))):
\* a last chunk of fewer than four bytes raises struct.error
RECURSIVE UnpackAll(_)
UnpackAll(bytes) ==
    IF bytes = <<>> THEN [vals |-> <<>>, stop |-> "StopIteration"]
    ELSE IF Len(bytes) < 4 THEN [vals |-> <<>>, stop |-> "struct.error"]
    ELSE LET rest == UnpackAll(SubSeq(bytes, 5, Len(bytes)))
         IN  [vals |-> <<Unpack(SubSeq(bytes, 1, 4))>> \o rest.vals,
              stop |-> rest.stop]

NoneIter == [vals |-> <<>>, stop |-> "TypeError"]

\* lines 541-593: [exc, next_gid], exc = "" when no exception was raised
PayloadDecoder(node) ==
    LET encoding == node.encoding
        compression == node.compression
        \* lines 543-557
        badEncoding == encoding \notin {"none", "base64", "csv"}
        \* data is None unless the encoding is base64
        hasData == encoding = "base64"
        \* lines 559-574
        badCompression == compression \notin {"none", "gzip", "zlib"}
        \* zlib.decompress(None) raises TypeError; GzipFile over
        \* BytesIO(None) reads the empty byte string
        inflateExc ==
            IF compression = "zlib" /\ ~hasData THEN "TypeError" ELSE ""
        \* the bytes held by data once inflated (blob.comp is the
        \* compression the node declares); b"" after gzip on None
        data == IF hasData THEN node.blob.bytes ELSE <<>>
    IN  IF badEncoding THEN [exc |-> "Exception", next_gid |-> NoneIter]
        ELSE IF inflateExc # "" THEN [exc |-> inflateExc, next_gid |-> NoneIter]
        ELSE IF badCompression THEN [exc |-> "Exception", next_gid |-> NoneIter]
        ELSE IF encoding = "none"
             \* lines 579-584: encoding == next_gid is None
             THEN [exc |-> "",
                   next_gid |-> MapInt(node.tiles)]
        ELSE IF encoding = "csv"
             THEN [exc |-> "",
                   next_gid |-> MapInt(Split(StripJoin(node.text), <<>>))]
        \* lines 586-593: elif data (an empty byte string is false)
        ELSE IF data = <<>>
             THEN [exc |-> "", next_gid |-> NoneIter]
             ELSE [exc |-> "", next_gid |-> UnpackAll(data)]

(***************************************************************************)
(* TiledElement and TileLayer.  An element built by cls() has the          *)
(* attributes its __init__ assigns and no others.                          *)
(***************************************************************************)
\* TiledElement.__init__ assigns self.properties only, and no subclass
\* __init__ nor from_xml assigns self.parent: reading elem.parent raises
\* AttributeError
HasParent == FALSE

\* TileLayer.__init__
TileLayer_init ==
    [properties |-> <<>>, data |-> <<>>, width |-> 0, height |-> 0]

\* TiledElement.set_properties: the <properties> children of the node become
\* elem.properties; the attributes of the node are not read
set_properties(elem, properties) == [elem EXCEPT !.properties = properties]

\* array.array('H') holds 0..65535
MaxCell == Half - 1

\* lines 602-603 from cell k on (row-major, k from 0): [exc, m, cells]
RECURSIVE FillGrid(_, _, _, _, _)
FillGrid(k, n, it, m, cells) ==
    IF k >= n THEN [exc |-> "", m |-> m, cells |-> cells]
    ELSE IF k + 1 > Len(it.vals) THEN [exc |-> it.stop, m |-> m, cells |-> cells]
    ELSE LET d == decode_gid(it.vals[k + 1])
             r == register_gid(m, d.gid, d.flags)
         IN  IF r.ret > MaxCell
             THEN [exc |-> "OverflowError", m |-> r.m, cells |-> cells]
             ELSE FillGrid(k + 1, n, it, r.m, Append(cells, r.ret))

\* the rows of a grid from its cells in row-major order
Rows(cells, width, height) ==
    [y \in 1 .. height |-> [x \in 1 .. width |-> cells[(y - 1) * width + x]]]

\* TileLayer.from_xml on a <layer> node, m being the map elem.parent would
\* be: [exc, elem, m, next_gid]
TileLayer_from_xml(node, m) ==
    LET elem == set_properties(TileLayer_init, <<>>)
        dec == PayloadDecoder(node)
    IN  IF dec.exc # ""
        THEN [exc |-> dec.exc, elem |-> elem, m |-> m, next_gid |-> dec.next_gid]
        \* line 598
        ELSE IF ~HasParent
        THEN [exc |-> "AttributeError", elem |-> elem, m |-> m,
              next_gid |-> dec.next_gid]
        \* lines 601-604
        ELSE LET fill == FillGrid(0, elem.width * elem.height, dec.next_gid,
                                  m, <<>>)
             IN  IF fill.exc # ""
                 THEN [exc |-> fill.exc, elem |-> elem, m |-> fill.m,
                       next_gid |-> dec.next_gid]
                 ELSE [exc |-> "",
                       elem |-> [elem EXCEPT !.data =
                                   Rows(fill.cells, elem.width, elem.height)],
                       m |-> fill.m, next_gid |-> dec.next_gid]

(***************************************************************************)
(* The children of a <map> node.  A child is the record                    *)
(*   [kind      the tag: "layer", "imagelayer", "objectgroup", "tileset"   *)
(*    node      the <layer> node, for a layer                              *)
(*    objects   the gid attribute of each <object> child, for a group      *)
(*    firstgid, source, tiles  of a <tileset>; a tile is [id, properties]  *)
(*    image     whether the child has an <image> child]                    *)
(***************************************************************************)
NoNode == LayerNode(0, 0, "none", "none", <<>>)

Child(kind) ==
    [kind |-> kind, node |-> NoNode, objects |-> <<>>, firstgid |-> 0,
     source |-> "", tiles |-> <<>>, image |-> FALSE]

\* node.findall(tag): the positions of the children with that tag, in
\* document order
FindAll(children, tag) ==
    SelectSeq([i \in 1 .. Len(children) |-> i],
              LAMBDA i : children[i].kind = tag)

\* parse_properties: the body is a docstring, so the call returns None
parse_properties(tile) == "None"

\* TiledMap.set_tile_properties
set_tile_properties(m, gid, properties) ==
    [m EXCEPT !.tile_properties = Put(@, gid, properties)]

\* TiledMap.get_tile_properties_by_gid: "None" on KeyError
get_tile_properties_by_gid(m, gid) ==
    IF gid \in DOMAIN m.tile_properties THEN m.tile_properties[gid]
    ELSE "None"

\* line 498-499: set_tile_properties for each entry of a map_gid list
RECURSIVE SetAll(_, _, _)
SetAll(m, entries, p) ==
    IF entries = <<>> THEN m
    ELSE SetAll(set_tile_properties(m, Head(entries)[1], p), Tail(entries), p)

\* lines 493-499 from tile k on: [exc, m, lookups], lookups the number of
\* map_gid calls made
RECURSIVE TileLoop(_, _, _, _, _)
TileLoop(tiles, k, firstgid, m, lookups) ==
    IF k > Len(tiles) THEN [exc |-> "", m |-> m, lookups |-> lookups]
    ELSE LET real_gid == tiles[k].id
             p == parse_properties(tiles[k])
         IN  \* p['width'] = ... on None
             IF p = "None"
             THEN [exc |-> "TypeError", m |-> m, lookups |-> lookups]
             ELSE LET r == map_gid(m, real_gid + firstgid)
                  IN  TileLoop(tiles, k + 1, firstgid,
                               SetAll(r.m, r.ret, p), lookups + 1)

\* Tileset.from_xml on a <tileset> child, m being the map elem.parent would
\* be: [exc, m, lookups]
Tileset_from_xml(child, m) ==
    IF child.source # ""
    THEN \* lines 468-487: a .tsx source reads elem.parent.filename
         [exc |-> IF child.source = ".tsx"
                  THEN (IF ~HasParent THEN "AttributeError" ELSE "IOError")
                  ELSE "Exception",
          m |-> m, lookups |-> 0]
    ELSE \* elem.firstgid keeps the 0 of Tileset.__init__: set_properties
         \* does not read the firstgid attribute
         LET loop == TileLoop(child.tiles, 1, 0, m, 0)
         IN  IF loop.exc # "" THEN loop
             \* line 502: node.find('image') is None without an <image>
             ELSE IF ~child.image
             THEN [exc |-> "AttributeError", m |-> loop.m,
                   lookups |-> loop.lookups]
             ELSE loop

\* ImageLayer.from_xml: node.find('image') is None without an <image>
ImageLayer_from_xml(child) ==
    IF ~child.image THEN [exc |-> "AttributeError", ret |-> "None"]
    ELSE [exc |-> "", ret |-> "ImageLayer"]

\* ObjectGroup.from_xml: Object(elem.parent, child) for each <object> child;
\* Object.__init__ takes no argument
ObjectGroup_from_xml(child) ==
    IF child.objects = <<>> THEN [exc |-> "", ret |-> "ObjectGroup"]
    ELSE [exc |-> IF ~HasParent THEN "AttributeError" ELSE "TypeError",
          ret |-> "None"]

\* TiledMap.add_layer: the assertion refuses what is no layer; self.layers is
\* an OrderedDict, which has no append, so a layer raises AttributeError
add_layer(layer) == IF layer = "None" THEN "AssertionError" ELSE "AttributeError"

\* the loops of TiledMap.from_xml, in the order of lines 218-228
LoadOrder_tilesets_first == <<"tileset", "layer", "imagelayer", "objectgroup">>

LoadOrder == <<"layer", "imagelayer", "objectgroup", "tileset">>

\* a slip of OnChildResult: the exception of a child is swallowed
OnChildResult_swallow(exc) == "continue"

\* from_xml has no try: an exception raised for a child leaves from_xml
OnChildResult(exc) == IF exc # "" THEN "raised" ELSE "continue"

(***************************************************************************)
(* Object.  An <object> node is the record                                 *)
(*   [gid       the gid attribute, a raw GID (0: no gid attribute)         *)
(*    x, y      the x and y attributes                                     *)
(*    polygon   <<the points attribute of the <polygon> child>>, or <<>>   *)
(*    polyline  <<the points attribute of the <polyline> child>>, or <<>>] *)
(***************************************************************************)
\* str.strip(): leading and trailing whitespace goes
RECURSIVE LStrip(_)
LStrip(text) ==
    IF text # <<>> /\ Head(text) \in Whitespace THEN LStrip(Tail(text))
    ELSE text

RECURSIVE RStrip(_)
RStrip(text) ==
    IF text # <<>> /\ text[Len(text)] \in Whitespace
    THEN RStrip(SubSeq(text, 1, Len(text) - 1))
    ELSE text

Strip(text) == LStrip(RStrip(text))

\* the value of a string of decimal digits
RECURSIVE DecimalValue(_, _)
DecimalValue(digits, acc) ==
    IF digits = <<>> THEN acc
    ELSE DecimalValue(Tail(digits), acc * 10 + DigitVal(Head(digits)))

\* int(text) for a string: surrounding whitespace and one sign are accepted;
\* [ok, val], ok = FALSE when int() raises ValueError
int(text) ==
    LET s == Strip(text)
        signed == s # <<>> /\ Head(s) \in {"+", "-"}
        body == IF signed THEN Tail(s) ELSE s
    IN  IF IsNumeral(body)
        THEN [ok |-> TRUE,
              val |-> IF signed /\ Head(s) = "-"
                      THEN 0 - DecimalValue(body, 0)
                      ELSE DecimalValue(body, 0)]
        ELSE [ok |-> FALSE, val |-> 0]

\* text.split(): the fields between runs of whitespace, none of them empty
RECURSIVE SplitWhitespace(_, _)
SplitWhitespace(text, field) ==
    IF text = <<>> THEN (IF field = <<>> THEN <<>> ELSE <<field>>)
    ELSE IF Head(text) \in Whitespace
         THEN (IF field = <<>> THEN <<>> ELSE <<field>>)
              \o SplitWhitespace(Tail(text), <<>>)
         ELSE SplitWhitespace(Tail(text), Append(field, Head(text)))

\* tuple(map(int, fields)): [exc, vals]
RECURSIVE IntTuple(_)
IntTuple(fields) ==
    IF fields = <<>> THEN [exc |-> "", vals |-> <<>>]
    ELSE LET v == int(Head(fields))
             rest == IntTuple(Tail(fields))
         IN  IF ~v.ok THEN [exc |-> "ValueError", vals |-> <<>>]
             ELSE IF rest.exc # "" THEN rest
             ELSE [exc |-> "", vals |-> <<v.val>> \o rest.vals]

\* read_points (lines 633-637) from item k of text.split() on: [exc, vals]
RECURSIVE ReadItems(_)
ReadItems(items) ==
    IF items = <<>> THEN [exc |-> "", vals |-> <<>>]
    ELSE LET t == IntTuple(Split(Head(items), <<>>))
             rest == ReadItems(Tail(items))
         IN  IF t.exc # "" THEN t
             ELSE IF rest.exc # "" THEN rest
             ELSE [exc |-> "", vals |-> <<t.vals>> \o rest.vals]

read_points(text) == ReadItems(SplitWhitespace(text, <<>>))

\* TiledMap.tileheight: the 0 of TiledMap.__init__, no attribute being read
TiledMap_tileheight == 0

\* Object.__init__; points and closed are attributes from_xml may add
Object_init ==
    [properties |-> <<>>, x |-> 0, y |-> 0, width |-> 0, height |-> 0,
     gid |-> 0, has_points |-> FALSE, points |-> <<>>, closed |-> "unset"]

\* lines 664-668 from point k on: the corners [x1, x2, y1, y2]
RECURSIVE BoundingBox(_, _, _)
BoundingBox(points, k, box) ==
    IF k > Len(points) THEN box
    ELSE LET x == points[k][1]
             y == points[k][2]
         IN  BoundingBox(points, k + 1,
                 [x1 |-> IF x < box.x1 THEN x ELSE box.x1,
                  x2 |-> IF x > box.x2 THEN x ELSE box.x2,
                  y1 |-> IF y < box.y1 THEN y ELSE box.y1,
                  y2 |-> IF y > box.y2 THEN y ELSE box.y2])

abs(n) == IF n < 0 THEN 0 - n ELSE n

\* Object.from_xml on an <object> node, m being the map elem.parent would
\* be: [exc, elem, m]
Object_from_xml(node, m) ==
    LET \* line 639: elem.gid, elem.x and elem.y keep the 0 of __init__
        e0 == set_properties(Object_init, <<>>)
        \* lines 642-648: register_gid(elem.gid), flags left at 0
        tile == e0.gid # 0
        r == register_gid(m, e0.gid, 0)
        e1 == IF tile
              THEN [e0 EXCEPT !.gid = r.ret, !.y = @ - TiledMap_tileheight]
              ELSE e0
        m1 == IF tile THEN r.m ELSE m
        \* lines 652-660: the polyline, when there is one, has the last word
        gon == IF node.polygon # <<>> THEN read_points(node.polygon[1])
               ELSE [exc |-> "", vals |-> <<>>]
        line == IF node.polyline # <<>> THEN read_points(node.polyline[1])
                ELSE [exc |-> "", vals |-> <<>>]
        points == IF node.polyline # <<>> THEN line.vals ELSE gon.vals
        closed == IF node.polyline # <<>> THEN "False"
                  ELSE IF node.polygon # <<>> THEN "True" ELSE e1.closed
        e2 == [e1 EXCEPT !.closed = closed]
        box == BoundingBox(points, 1, [x1 |-> 0, x2 |-> 0, y1 |-> 0, y2 |-> 0])
    IN  IF tile /\ ~HasParent
        THEN [exc |-> "AttributeError", elem |-> e0, m |-> m]
        ELSE IF gon.exc # "" THEN [exc |-> gon.exc, elem |-> e1, m |-> m1]
        ELSE IF line.exc # "" THEN [exc |-> line.exc, elem |-> e1, m |-> m1]
        \* line 662: if points
        ELSE IF points = <<>> THEN [exc |-> "", elem |-> e2, m |-> m1]
        \* line 664: for x, y in points
        ELSE IF \E i \in 1 .. Len(points) : Len(points[i]) # 2
        THEN [exc |-> "ValueError", elem |-> e2, m |-> m1]
        ELSE [exc |-> "",
              elem |-> [e2 EXCEPT
                          !.width = abs(box.x1) + abs(box.x2),
                          !.height = abs(box.y1) + abs(box.y2),
                          !.has_points = TRUE,
                          !.points = [i \in 1 .. Len(points) |->
                                        <<points[i][1] + e2.x,
                                          points[i][2] + e2.y>>]],
              m |-> m1]

(***************************************************************************)
(* handle_bool                                                             *)
(***************************************************************************)
UpperCase ==
    <<"A", "B", "C", "D", "E", "F", "G", "H", "I", "J", "K", "L", "M",
      "N", "O", "P", "Q", "R", "S", "T", "U", "V", "W", "X", "Y", "Z">>
LowerCase ==
    <<"a", "b", "c", "d", "e", "f", "g", "h", "i", "j", "k", "l", "m",
      "n", "o", "p", "q", "r", "s", "t", "u", "v", "w", "x", "y", "z">>

\* str.lower() on a text of ASCII characters
lower(text) ==
    [i \in 1 .. Len(text) |->
        IF \E k \in 1 .. 26 : UpperCase[k] = text[i]
        THEN LowerCase[CHOOSE k \in 1 .. 26 : UpperCase[k] = text[i]]
        ELSE text[i]]

\* a slip of handle_bool: the words are compared as they are written
handle_bool_case_sensitive(text) ==
    IF int(text).ok
    THEN (IF int(text).val # 0 THEN "True" ELSE "False")
    ELSE IF text = <<"t", "r", "u", "e">> THEN "True"
    ELSE IF text = <<"y", "e", "s">> THEN "True"
    ELSE IF text = <<"f", "a", "l", "s", "e">> THEN "False"
    ELSE IF text = <<"n", "o">> THEN "False"
    ELSE "ValueError"

\* handle_bool: "True", "False", or "ValueError" when it raises
handle_bool(text) ==
    IF int(text).ok
    THEN (IF int(text).val # 0 THEN "True" ELSE "False")
    ELSE LET t == lower(text)
         IN  IF t = <<"t", "r", "u", "e">> THEN "True"
             ELSE IF t = <<"y", "e", "s">> THEN "True"
             ELSE IF t = <<"f", "a", "l", "s", "e">> THEN "False"
             ELSE IF t = <<"n", "o">> THEN "False"
             ELSE "ValueError"

(***************************************************************************)
(* TiledMap.get_tile_properties.  TiledMap.layers is the OrderedDict of    *)
(* TiledMap.__init__, kept as a function from key to layer grid; add_layer *)
(* never adds to it.                                                       *)
(***************************************************************************)
\* self.layers = OrderedDict()
TiledMap_layers == <<>>

\* TiledMap.get_tile_properties: [exc, ret], ret = "None" on KeyError from
\* the tile property table
get_tile_properties(m, layers, x, y, layer) ==
    \* lines 298-301
    IF ~(x >= 0 /\ y >= 0 /\ layer >= 0)
    THEN [exc |-> "ValueError", ret |-> "None"]
    \* line 304: the KeyError of self.layers[int(layer)] is not caught
    ELSE IF layer \notin DOMAIN layers
    THEN [exc |-> "KeyError", ret |-> "None"]
    \* lines 305-308: IndexError from the grid
    ELSE IF y + 1 > Len(layers[layer]) \/ x + 1 > Len(layers[layer][y + 1])
    THEN [exc |-> "Exception", ret |-> "None"]
    ELSE [exc |-> "",
          ret |-> get_tile_properties_by_gid(m, layers[layer][y + 1][x + 1])]

(***************************************************************************)
(* State.                                                                  *)
(***************************************************************************)
VARIABLES
    imagemap,   \* TiledMap.imagemap
    gidmap,     \* TiledMap.gidmap
    maxgid,     \* TiledMap.maxgid
    tile_properties,  \* TiledMap.tile_properties
    tilesets,   \* TiledMap.tilesets: the positions of the tilesets added
    calls,      \* the register_gid calls made so far: [gid, flags, ret]
    last,       \* the last call: [op, gid, flags, ret, list]
    raw_gid,    \* the argument of decode_gid
    decoded,    \* <<the value decode_gid returned>>, or <<>> before the call
    layer_gids, \* the raw GIDs Tiled wrote into the <layer> node
    node,       \* the <layer> node handed to TileLayer.from_xml
    layer_ret,  \* <<the outcome of TileLayer.from_xml>>, or <<>> before it
    doc,        \* the children of the <map> node handed to TiledMap.from_xml
    pc,         \* where TiledMap.from_xml stands
    todo,       \* the children the current loop has yet to visit
    trace,      \* the children visited and the final pass, in order
    obj_points, \* <<the points Tiled wrote into the <object> node>>
    obj_node,   \* the <object> node handed to Object.from_xml
    obj_ret,    \* <<the outcome of Object.from_xml>>, or <<>> before it
    text,       \* the argument of handle_bool
    bool_ret    \* <<what handle_bool returned or raised>>, or <<>>

regVars == <<imagemap, gidmap, maxgid, tile_properties, tilesets>>
apiVars == <<calls, last>>
codecVars == <<raw_gid, decoded>>
layerVars == <<layer_gids, node, layer_ret>>
loadVars == <<doc, pc, todo, trace>>
objVars == <<obj_points, obj_node, obj_ret>>
boolVars == <<text, bool_ret>>

vars == <<imagemap, gidmap, maxgid, tile_properties, tilesets, calls, last,
          raw_gid, decoded, layer_gids, node, layer_ret, doc, pc, todo,
          trace, obj_points, obj_node, obj_ret, text, bool_ret>>

\* the map object the variables hold
self == [imagemap |-> imagemap, gidmap |-> gidmap, maxgid |-> maxgid,
         tile_properties |-> tile_properties]

SetSelf(m) ==
    /\ imagemap' = m.imagemap
    /\ gidmap' = m.gidmap
    /\ maxgid' = m.maxgid
    /\ tile_properties' = m.tile_properties

NoCall == [op |-> "none", gid |-> 0, flags |-> 0, ret |-> 0, list |-> <<>>]

BaseGids == 0 .. MaxBaseGid
\* the flags passed to register_gid
Flags == {0, TRANS_FLIPX}

\* a freshly constructed map
FreshMap ==
    /\ imagemap = TiledMap_init.imagemap
    /\ gidmap = TiledMap_init.gidmap
    /\ maxgid = TiledMap_init.maxgid
    /\ tile_properties = TiledMap_init.tile_properties
    /\ tilesets = <<>>

NoApi == calls = <<>> /\ last = NoCall
NoCodec == raw_gid = Word(0, 0) /\ decoded = <<>>
NoLayer == layer_gids = <<>> /\ node = NoNode /\ layer_ret = <<>>
NoLoad == doc = <<>> /\ pc = "idle" /\ todo = <<>> /\ trace = <<>>
NoObjectNode ==
    [gid |-> Word(0, 0), x |-> 0, y |-> 0, polygon |-> <<>>, polyline |-> <<>>]
NoObject == obj_points = <<>> /\ obj_node = NoObjectNode /\ obj_ret = <<>>
NoBool == text = <<>> /\ bool_ret = <<>>

(***************************************************************************)
(* Spec: calls of register_gid and map_gid on a freshly constructed map.   *)
(***************************************************************************)
Init == FreshMap /\ NoApi /\ NoCodec /\ NoLayer /\ NoLoad /\ NoObject /\ NoBool

RegisterGid(limit) ==
    /\ Len(calls) < limit
    /\ \E g \in BaseGids, f \in Flags :
          LET r == register_gid(self, g, f)
          IN  /\ SetSelf(r.m)
              /\ calls' = Append(calls, [gid |-> g, flags |-> f, ret |-> r.ret])
              /\ last' = [op |-> "register_gid", gid |-> g, flags |-> f,
                          ret |-> r.ret, list |-> <<>>]
    /\ UNCHANGED <<objVars, boolVars, tilesets, codecVars, layerVars, loadVars>>

CallRegisterGid == RegisterGid(MaxCalls)

CallMapGid ==
    /\ \E g \in BaseGids :
          LET r == map_gid(self, g)
          IN  /\ SetSelf(r.m)
              /\ last' = [op |-> "map_gid", gid |-> g, flags |-> 0,
                          ret |-> 0, list |-> r.ret]
    /\ UNCHANGED <<objVars, boolVars, tilesets, calls, codecVars, layerVars, loadVars>>

Next == CallRegisterGid \/ CallMapGid

Spec == Init /\ [][Next]_vars

(***************************************************************************)
(* CodecSpec: decode_gid applied to a raw GID drawn from RawGids.          *)
(***************************************************************************)
\* raw GIDs with every combination of the three top bits, over base GIDs that
\* reach into both halves of the word
RawGids ==
    {Word(top * 2^13 + h, l) :
        top \in 0 .. 7, h \in {0, 1, 2^13 - 1}, l \in {0, 7, 13, Half - 1}}

CodecInit ==
    /\ FreshMap /\ NoApi /\ NoLayer /\ NoLoad /\ NoObject /\ NoBool
    /\ raw_gid \in RawGids
    /\ decoded = <<>>

CallDecodeGid ==
    /\ decoded = <<>>
    /\ decoded' = <<decode_gid(raw_gid)>>
    /\ UNCHANGED <<objVars, boolVars, regVars, apiVars, raw_gid, layerVars, loadVars>>

CodecNext == CallDecodeGid

CodecSpec == CodecInit /\ [][CodecNext]_vars

(***************************************************************************)
(* LayerSpec: TileLayer.from_xml applied to a <layer> node Tiled wrote,    *)
(* after up to MaxPriorCalls register_gid calls on the map.                *)
(***************************************************************************)
\* the raw GIDs a layer holds: empty, a plain tile, a flipped tile
LayerCells == {Word(0, 0), Word(0, 1), Word(2^15 + 2^13, 1)}

RECURSIVE SeqsUpTo(_, _)
SeqsUpTo(S, n) ==
    IF n = 0 THEN {<<>>}
    ELSE LET shorter == SeqsUpTo(S, n - 1)
         IN  shorter \cup {Append(q, x) : q \in shorter, x \in S}

\* the declared width and height of a layer
LayerDims == {<<1, 1>>, <<2, 1>>, <<1, 2>>}

\* the encoding and compression attributes PayloadDecoder supports
Supported ==
    {<<"none", "none">>, <<"csv", "none">>, <<"base64", "none">>,
     <<"base64", "zlib">>, <<"base64", "gzip">>}

\* and two it does not
Unsupported == {<<"xml", "none">>, <<"base64", "lzma">>}

LayerInit ==
    /\ FreshMap /\ NoApi /\ NoCodec /\ NoLoad /\ NoObject /\ NoBool
    /\ layer_gids \in SeqsUpTo(LayerCells, MaxLayerLen)
    /\ \E d \in LayerDims, e \in Supported \cup Unsupported :
          node = LayerNode(d[1], d[2], e[1], e[2], layer_gids)
    /\ layer_ret = <<>>

PriorRegisterGid ==
    /\ layer_ret = <<>>
    /\ RegisterGid(MaxPriorCalls)

CallTileLayerFromXml ==
    /\ layer_ret = <<>>
    /\ LET r == TileLayer_from_xml(node, self)
       IN  /\ SetSelf(r.m)
           /\ layer_ret' = <<[exc |-> r.exc, elem |-> r.elem,
                              next_gid |-> r.next_gid, before |-> self]>>
    /\ UNCHANGED <<objVars, boolVars, tilesets, apiVars, codecVars, layer_gids, node, loadVars>>

LayerNext == PriorRegisterGid \/ CallTileLayerFromXml

LayerSpec == LayerInit /\ [][LayerNext]_vars

(***************************************************************************)
(* LoadSpec: TiledMap.from_xml on a <map> node, one child at a time.       *)
(***************************************************************************)
\* a complete 2 x 1 CSV layer and a 2 x 1 base64 + zlib layer one GID short
CompleteLayer ==
    [Child("layer") EXCEPT
        !.node = LayerNode(2, 1, "csv", "none", <<Word(0, 1), Word(2^14, 1)>>)]
TruncatedLayer ==
    [Child("layer") EXCEPT
        !.node = LayerNode(2, 1, "base64", "zlib", <<Word(0, 1)>>)]
AnImageLayer == [Child("imagelayer") EXCEPT !.image = TRUE]
EmptyGroup == Child("objectgroup")
TileObjectGroup == [Child("objectgroup") EXCEPT !.objects = <<Word(0, 1)>>]
\* tilesets: without <tile> children, with one, and in an external file
BareTileset == [Child("tileset") EXCEPT !.firstgid = 1, !.image = TRUE]
TileTileset ==
    [Child("tileset") EXCEPT
        !.firstgid = 1, !.image = TRUE,
        !.tiles = <<[id |-> 0, properties |-> [solid |-> "1"]]>>]
ExternalTileset == [Child("tileset") EXCEPT !.firstgid = 1, !.source = ".tsx"]
\* a tileset whose <tile> child declares no <properties> block
PlainTileTileset ==
    [Child("tileset") EXCEPT
        !.firstgid = 1, !.image = TRUE,
        !.tiles = <<[id |-> 0, properties |-> <<>>]>>]

Children ==
    {CompleteLayer, TruncatedLayer, AnImageLayer, EmptyGroup, TileObjectGroup,
     BareTileset, TileTileset, ExternalTileset, PlainTileTileset}

LoadInit ==
    /\ FreshMap /\ NoApi /\ NoCodec /\ NoLayer /\ NoObject /\ NoBool
    /\ doc \in SeqsUpTo(Children, MaxChildren)
    /\ pc = "start"
    /\ todo = <<>>
    /\ trace = <<>>

\* a child visited: its tag and position, the exception it raised ("": none),
\* and the register_gid and map_gid calls made for it
Event(kind, idx, exc, regs, lookups) ==
    [kind |-> kind, idx |-> idx, exc |-> exc, regs |-> regs,
     lookups |-> lookups]

\* lines 211-214: elem = cls(), then the first findall
Start ==
    /\ pc = "start"
    /\ pc' = LoadOrder[1]
    /\ todo' = FindAll(doc, LoadOrder[1])
    /\ UNCHANGED <<objVars, boolVars, regVars, apiVars, codecVars, layerVars, doc, trace>>

\* the position of a loop in LoadOrder
LoopNumber(tag) == CHOOSE i \in 1 .. Len(LoadOrder) : LoadOrder[i] = tag

\* a for loop ends: the next findall, or the final pass
NextLoop ==
    /\ pc \in {LoadOrder[i] : i \in 1 .. Len(LoadOrder)}
    /\ todo = <<>>
    /\ IF LoopNumber(pc) < Len(LoadOrder)
       THEN /\ pc' = LoadOrder[LoopNumber(pc) + 1]
            /\ todo' = FindAll(doc, LoadOrder[LoopNumber(pc) + 1])
       ELSE /\ pc' = "merge"
            /\ todo' = <<>>
    /\ UNCHANGED <<objVars, boolVars, regVars, apiVars, codecVars, layerVars, doc, trace>>

\* where from_xml stands after a child: the loop goes on, or from_xml raised
After(exc) ==
    /\ pc' = IF OnChildResult(exc) = "raised" THEN "raised" ELSE pc
    /\ todo' = IF OnChildResult(exc) = "raised" THEN <<>> ELSE Tail(todo)

\* line 219: elem.add_layer(TileLayer.from_xml(subnode))
LoadTileLayer ==
    /\ pc = "layer" /\ todo # <<>>
    /\ LET r == TileLayer_from_xml(doc[Head(todo)].node, self)
           exc == IF r.exc # "" THEN r.exc ELSE add_layer("TileLayer")
       IN  /\ SetSelf(r.m)
           /\ trace' = Append(trace, Event("layer", Head(todo), exc,
                                           r.m.maxgid - maxgid, 0))
           /\ After(exc)
    /\ UNCHANGED <<objVars, boolVars, tilesets, apiVars, codecVars, layerVars, doc>>

\* line 222: elem.add_layer(ImageLayer.from_xml(subnode))
LoadImageLayer ==
    /\ pc = "imagelayer" /\ todo # <<>>
    /\ LET r == ImageLayer_from_xml(doc[Head(todo)])
           exc == IF r.exc # "" THEN r.exc ELSE add_layer(r.ret)
       IN  /\ trace' = Append(trace, Event("imagelayer", Head(todo), exc, 0, 0))
           /\ After(exc)
    /\ UNCHANGED <<objVars, boolVars, regVars, apiVars, codecVars, layerVars, doc>>

\* line 225: elem.add_layer(ObjectGroup.from_xml(subnode))
LoadObjectGroup ==
    /\ pc = "objectgroup" /\ todo # <<>>
    /\ LET r == ObjectGroup_from_xml(doc[Head(todo)])
           exc == IF r.exc # "" THEN r.exc ELSE add_layer(r.ret)
       IN  /\ trace' = Append(trace, Event("objectgroup", Head(todo), exc, 0, 0))
           /\ After(exc)
    /\ UNCHANGED <<objVars, boolVars, regVars, apiVars, codecVars, layerVars, doc>>

\* line 228: elem.add_tileset(Tileset.from_xml(subnode))
LoadTileset ==
    /\ pc = "tileset" /\ todo # <<>>
    /\ LET r == Tileset_from_xml(doc[Head(todo)], self)
       IN  /\ SetSelf(r.m)
           /\ tilesets' = IF r.exc = "" THEN Append(tilesets, Head(todo))
                          ELSE tilesets
           /\ trace' = Append(trace, Event("tileset", Head(todo), r.exc, 0,
                                           r.lookups))
           /\ After(r.exc)
    /\ UNCHANGED <<objVars, boolVars, apiVars, codecVars, layerVars, doc>>

\* lines 233-238: elem.objects chains the object groups of elem.layers, which
\* no add_layer call has filled; then return elem
MergeAndReturn ==
    /\ pc = "merge"
    /\ pc' = "returned"
    /\ trace' = Append(trace, Event("merge", 0, "", 0, 0))
    /\ UNCHANGED <<objVars, boolVars, regVars, apiVars, codecVars, layerVars, doc, todo>>

\* the compact GIDs and the cell coordinates looked up on the map returned
LookupGids == 0 .. 1
LookupCoords == 0 .. 1

\* get_tile_properties_by_gid(gid) on the map from_xml returned
CallGetTilePropertiesByGid ==
    /\ pc = "returned"
    /\ last.op = "none"
    /\ \E g \in LookupGids :
          last' = [op |-> "get_tile_properties_by_gid", gid |-> g,
                   flags |-> 0, ret |-> get_tile_properties_by_gid(self, g),
                   list |-> <<>>]
    /\ UNCHANGED <<objVars, boolVars, regVars, calls, codecVars, layerVars,
                   loadVars>>

\* get_tile_properties(x, y, layer) on the map from_xml returned: what it
\* returned, or the exception it raised
CallGetTileProperties ==
    /\ pc = "returned"
    /\ last.op = "none"
    /\ \E x \in LookupCoords, y \in LookupCoords, layer \in LookupCoords :
          LET r == get_tile_properties(self, TiledMap_layers, x, y, layer)
          IN  last' = [op |-> "get_tile_properties", gid |-> 0, flags |-> 0,
                       ret |-> IF r.exc # "" THEN r.exc ELSE r.ret,
                       list |-> <<x, y, layer>>]
    /\ UNCHANGED <<objVars, boolVars, regVars, calls, codecVars, layerVars,
                   loadVars>>

LoadNext ==
    \/ Start
    \/ NextLoop
    \/ LoadTileLayer
    \/ LoadImageLayer
    \/ LoadObjectGroup
    \/ LoadTileset
    \/ MergeAndReturn
    \/ CallGetTilePropertiesByGid
    \/ CallGetTileProperties

LoadSpec == LoadInit /\ [][LoadNext]_vars

(***************************************************************************)
(* ObjectSpec: Object.from_xml applied to an <object> node Tiled wrote.    *)
(***************************************************************************)
\* the decimal numeral of a natural number
RECURSIVE Numeral(_)
Numeral(n) ==
    IF n < 10 THEN <<Digits[n + 1]>>
    ELSE Numeral(n \div 10) \o <<Digits[(n % 10) + 1]>>

\* the numeral of an integer, as Tiled writes a coordinate
SignedNumeral(n) == IF n < 0 THEN <<"-">> \o Numeral(0 - n) ELSE Numeral(n)

\* the points attribute of a <polygon> or <polyline>: "x,y x,y ..."
RECURSIVE PointsText(_)
PointsText(points) ==
    IF points = <<>> THEN <<>>
    ELSE SignedNumeral(Head(points)[1]) \o <<",">>
         \o SignedNumeral(Head(points)[2])
         \o (IF Len(points) = 1 THEN <<>> ELSE <<" ">>)
         \o PointsText(Tail(points))

\* the coordinates of a declared point
Coords == -1 .. 2
\* the gid attribute of an object: none, a plain tile, a flipped tile
ObjectGids == {Word(0, 0), Word(0, 1), Word(2^15, 1)}
\* the x and y attributes of an object
ObjectOrigins == {<<0, 0>>, <<3, 5>>}

ObjectInit ==
    /\ FreshMap /\ NoApi /\ NoCodec /\ NoLayer /\ NoLoad /\ NoBool
    /\ obj_points \in SeqsUpTo(Coords \X Coords, MaxPoints)
    /\ \E g \in ObjectGids, o \in ObjectOrigins,
          shape \in {"none", "polygon", "polyline"} :
          /\ shape = "none" => obj_points = <<>>
          /\ obj_node =
                [gid |-> g, x |-> o[1], y |-> o[2],
                 polygon |-> IF shape = "polygon"
                             THEN <<PointsText(obj_points)>> ELSE <<>>,
                 polyline |-> IF shape = "polyline"
                              THEN <<PointsText(obj_points)>> ELSE <<>>]
    /\ obj_ret = <<>>

CallObjectFromXml ==
    /\ obj_ret = <<>>
    /\ LET r == Object_from_xml(obj_node, self)
       IN  /\ SetSelf(r.m)
           /\ obj_ret' = <<[exc |-> r.exc, elem |-> r.elem, before |-> self]>>
    /\ UNCHANGED <<tilesets, apiVars, codecVars, layerVars, loadVars,
                   obj_points, obj_node, boolVars>>

ObjectNext == CallObjectFromXml

ObjectSpec == ObjectInit /\ [][ObjectNext]_vars

(***************************************************************************)
(* BoolSpec: handle_bool applied to a property value.                      *)
(***************************************************************************)
\* a word with the letters at the positions S in upper case
Cased(w, S) ==
    [i \in 1 .. Len(w) |->
        IF i \in S THEN UpperCase[CHOOSE k \in 1 .. 26 : LowerCase[k] = w[i]]
        ELSE w[i]]
CaseVariants(w) == {Cased(w, S) : S \in SUBSET (1 .. Len(w))}

TrueWords == CaseVariants(<<"t", "r", "u", "e">>) \cup CaseVariants(<<"y", "e", "s">>)
FalseWords ==
    CaseVariants(<<"f", "a", "l", "s", "e">>) \cup CaseVariants(<<"n", "o">>)
OtherWords == CaseVariants(<<"m", "a", "y", "b", "e">>)

\* the strings int() accepts: digits, after an optional sign, within optional
\* whitespace
Numerals ==
    {pre \o sign \o d \o post :
        pre \in {<<>>, <<" ">>}, sign \in {<<>>, <<"+">>, <<"-">>},
        d \in SeqsUpTo({"0", "1", "7"}, MaxDigits) \ {<<>>},
        post \in {<<>>, <<"\n">>}}

\* strings that are neither: empty, a bare sign, a decimal fraction, digits
\* apart, a word within whitespace, a prefix of a word, a doubled sign
Malformed ==
    {<<>>, <<"+">>, <<"1", ".", "0">>, <<"1", " ", "0">>,
     <<" ", "t", "r", "u", "e">>, <<"y", "e", "s", " ">>, <<"t", "r", "u">>,
     <<"y">>, <<"o", "n">>, <<"-", "-", "1">>, <<"0", "x", "1">>}

BoolInit ==
    /\ FreshMap /\ NoApi /\ NoCodec /\ NoLayer /\ NoLoad /\ NoObject
    /\ text \in TrueWords \cup FalseWords \cup OtherWords \cup Numerals
                \cup Malformed
    /\ bool_ret = <<>>

CallHandleBool ==
    /\ bool_ret = <<>>
    /\ bool_ret' = <<handle_bool(text)>>
    /\ UNCHANGED <<regVars, apiVars, codecVars, layerVars, loadVars, objVars,
                   text>>

BoolNext == CallHandleBool

BoolSpec == BoolInit /\ [][BoolNext]_vars

(***************************************************************************)
(* Properties of the registry (checked under Spec).                        *)
(***************************************************************************)
\* the calls that passed a base GID other than 0
RealCalls == {i \in 1 .. Len(calls) : calls[i].gid # 0}
PairOf(i) == <<calls[i].gid, calls[i].flags>>
\* the distinct (base_gid, flags) pairs, base_gid # 0, passed in calls 1..n
PairsUpTo(n) == {PairOf(i) : i \in {k \in RealCalls : k <= n}}
\* the first call that passed the pair of call i
FirstCall(i) == CHOOSE k \in 1 .. i :
                   /\ PairOf(k) = PairOf(i)
                   /\ \A j \in 1 .. (k - 1) : PairOf(j) # PairOf(i)
\* the compact GIDs held by the forward table
Allocated == {imagemap[k][1] : k \in DOMAIN imagemap \ {<<0, 0>>}}

\* C1: every register_gid call with the same (base_gid, flags), base_gid # 0,
\* returned the same compact GID, and the number of distinct compact GIDs
\* allocated (returned, and held by the forward table) is the number of
\* distinct pairs with base_gid # 0 ever passed in.
C1_Dedup ==
    /\ \A i, j \in RealCalls :
          PairOf(i) = PairOf(j) => calls[i].ret = calls[j].ret
    /\ Cardinality({calls[i].ret : i \in RealCalls})
          = Cardinality(PairsUpTo(Len(calls)))
    /\ Cardinality(Allocated) = Cardinality(PairsUpTo(Len(calls)))

\* a pair was registered twice, with another pair registered in between
C1_Witness ==
    \E i, j, k \in RealCalls :
        /\ i < k /\ k < j
        /\ PairOf(i) = PairOf(j)
        /\ PairOf(k) # PairOf(i)

\* C2: a register_gid call with base GID 0 returns 0 and leaves imagemap,
\* gidmap and maxgid unchanged, for any flags and in any registry state.
C2_ZeroPassthrough ==
    [][(/\ Len(calls') = Len(calls) + 1
        /\ calls'[Len(calls')].gid = 0)
       => (/\ calls'[Len(calls')].ret = 0
           /\ UNCHANGED <<imagemap, gidmap, maxgid>>)]_vars

\* register_gid(0, flags) with flags # 0 was called on a map that already
\* holds allocations
C2_Witness ==
    /\ last.op = "register_gid"
    /\ last.gid = 0
    /\ last.flags # 0
    /\ maxgid > 2

\* C3: compact GIDs are handed out densely from 1 in order of first
\* encounter: the GIDs returned for n distinct pairs are exactly 1..n, the
\* k-th newly seen pair received k, distinct pairs received distinct GIDs,
\* and the forward table holds no pair that was never registered.
C3_DenseFromOne ==
    /\ {calls[i].ret : i \in RealCalls}
          = 1 .. Cardinality(PairsUpTo(Len(calls)))
    /\ \A i \in RealCalls :
          calls[i].ret = Cardinality(PairsUpTo(FirstCall(i)))
    /\ \A i, j \in RealCalls :
          PairOf(i) # PairOf(j) => calls[i].ret # calls[j].ret
    /\ DOMAIN imagemap \ {<<0, 0>>} = PairsUpTo(Len(calls))

\* the same base GID was registered plain and flipped, among three pairs,
\* with a repeat and a call for base GID 0 in between
C3_Witness ==
    /\ Cardinality(PairsUpTo(Len(calls))) = 3
    /\ \E i, j \in RealCalls :
          /\ calls[i].gid = calls[j].gid
          /\ calls[i].flags = 0
          /\ calls[j].flags = TRANS_FLIPX
    /\ \E i \in 1 .. Len(calls) : calls[i].gid = 0

\* the (compact_gid, flags) entries allocated for base GID b by calls n.. on,
\* in the order of the calls that allocated them
RECURSIVE AllocatedFrom(_, _)
AllocatedFrom(n, b) ==
    IF n > Len(calls) THEN <<>>
    ELSE IF calls[n].gid = b /\ b # 0 /\ FirstCall(n) = n
         THEN <<(<<calls[n].ret, calls[n].flags>>)>> \o AllocatedFrom(n + 1, b)
         ELSE AllocatedFrom(n + 1, b)

\* C4: map_gid(base_gid) returns exactly the (compact_gid, flags) entries
\* allocated for that base GID, once each, in allocation order, and the empty
\* sequence for a base GID that was never registered.
C4_ReverseLookup ==
    last.op = "map_gid" => last.list = AllocatedFrom(1, last.gid)

\* map_gid returned two entries for a base GID, another base GID having been
\* registered between the two
C4_Witness ==
    /\ last.op = "map_gid"
    /\ Len(last.list) = 2
    /\ \E i, j, k \in RealCalls :
          /\ i < k /\ k < j
          /\ calls[i].gid = last.gid /\ calls[j].gid = last.gid
          /\ calls[k].gid # last.gid

\* map_gid returned the empty sequence for a base GID that was never
\* registered, on a map that holds allocations
C4_WitnessEmpty ==
    /\ last.op = "map_gid"
    /\ last.list = <<>>
    /\ maxgid > 1

(***************************************************************************)
(* Properties of the codec (checked under CodecSpec).                      *)
(***************************************************************************)
\* bit n of a 16-bit half
Bit(x, n) == (x \div 2^n) % 2
\* base_gid recombined with the flag bits at their fixed positions
Encode(gid, flags) ==
    Word((gid \div Half) + Bit(flags, 0) * 2^15 + Bit(flags, 1) * 2^14
                         + Bit(flags, 2) * 2^13,
         gid % Half)

\* C5: decode_gid returns the raw GID with the three flag bits cleared and
\* the sum of 1/2/4 for the flip-x / flip-y / rotate bits that are set;
\* recombining the two gives back the raw GID; 0 decodes to (0, 0) and
\* 0x80000007 to (7, FLIP_X).
C5_CodecRoundTrip ==
    decoded # <<>> =>
        LET d == decoded[1]
        IN  /\ d.gid = (raw_gid.hi % 2^13) * Half + raw_gid.lo
            /\ d.flags = Bit(raw_gid.hi, 15) * 1 + Bit(raw_gid.hi, 14) * 2
                         + Bit(raw_gid.hi, 13) * 4
            /\ Encode(d.gid, d.flags) = raw_gid
            /\ raw_gid = Word(0, 0) => d = [gid |-> 0, flags |-> 0]
            /\ raw_gid = Word(2^15, 7) => d = [gid |-> 7, flags |-> 1]

\* a raw GID with the flip-y and rotate bits set, and base GID bits in both
\* halves of the word, was decoded
C5_Witness ==
    /\ decoded # <<>>
    /\ raw_gid = Word(2^14 + 2^13 + 1, 13)
    /\ decoded[1] = [gid |-> Half + 13, flags |-> 6]

C8_EncodingEquivalence ==
    (/\ layer_ret # <<>>
     /\ <<node.encoding, node.compression>> \in Supported)
    => LET r == layer_ret[1]
       IN  /\ r.next_gid.vals = layer_gids
           /\ \A e \in Supported :
                 LET o == TileLayer_from_xml(
                              LayerNode(node.width, node.height, e[1], e[2],
                                        layer_gids),
                              r.before)
                 IN  /\ o.next_gid.vals = r.next_gid.vals
                     /\ (o.exc = "") = (r.exc = "")
                     /\ o.elem.data = r.elem.data
                     /\ o.m = self

\* a base64 + gzip layer holding a flipped and rotated tile and a plain one
\* was decoded on a map that holds an allocation
C8_Witness ==
    /\ layer_ret # <<>>
    /\ node.encoding = "base64" /\ node.compression = "gzip"
    /\ layer_gids = <<Word(2^15 + 2^13, 1), Word(0, 1)>>
    /\ layer_ret[1].next_gid.vals = layer_gids
    /\ maxgid > 1

(***************************************************************************)
(* Properties of TiledMap.from_xml (checked under LoadSpec).               *)
(***************************************************************************)
\* a tile layer whose payload yields fewer raw GIDs than width * height
Truncated(child) ==
    /\ child.kind = "layer"
    /\ Len(PayloadDecoder(child.node).next_gid.vals)
          < child.node.width * child.node.height

\* C7: if a tile layer's payload yields fewer than width * height raw GIDs,
\* decoding that layer fails, it is the last child visited, and from_xml
\* ends raising: no map is returned.
C7_TruncatedIsFatal ==
    /\ (\E i \in 1 .. Len(doc) : Truncated(doc[i])) => pc # "returned"
    /\ \A k \in 1 .. Len(trace) :
          (trace[k].kind = "layer" /\ Truncated(doc[trace[k].idx]))
          => (/\ trace[k].exc # ""
              /\ k = Len(trace)
              /\ pc = "raised")

\* from_xml raised on a truncated layer that follows a tileset in the document
C7_Witness ==
    /\ pc = "raised"
    /\ Len(trace) = 1
    /\ trace[1].idx = 2
    /\ Truncated(doc[2])
    /\ doc[1].kind = "tileset"

\* the compact GIDs registered for a base GID
RegisteredFor(base) ==
    IF base \in DOMAIN gidmap
    THEN {gidmap[base][i][1] : i \in 1 .. Len(gidmap[base])}
    ELSE {}

\* a document of inline tilesets with an <image> each
OnlyTilesets ==
    /\ doc # <<>>
    /\ \A i \in 1 .. Len(doc) :
          doc[i].kind = "tileset" /\ doc[i].source = "" /\ doc[i].image

\* C9: after a map load, for every tile element with id t of a tileset with
\* first GID f, every compact GID registered for base GID t + f carries the
\* properties of the tile in the tile property table; a tile id with no
\* prior registration adds no entry and raises no error.
C9_TilesetBackfill ==
    /\ pc = "returned" =>
          \A i \in 1 .. Len(doc) : \A k \in 1 .. Len(doc[i].tiles) :
              \A g \in RegisteredFor(doc[i].tiles[k].id + doc[i].firstgid) :
                  /\ g \in DOMAIN tile_properties
                  /\ \A key \in DOMAIN doc[i].tiles[k].properties :
                        tile_properties[g][key]
                           = doc[i].tiles[k].properties[key]
    /\ (OnlyTilesets /\ pc \in {"returned", "raised"}) =>
          /\ pc = "returned"
          /\ DOMAIN tile_properties = {}

\* the place of a loop, and of the final pass, in the order of lines 218-236
Rank(kind) ==
    CASE kind = "layer" -> 1
      [] kind = "imagelayer" -> 2
      [] kind = "objectgroup" -> 3
      [] kind = "tileset" -> 4
      [] kind = "merge" -> 5

\* C10: whatever the document order, from_xml visits all tile layers, then
\* all image layers, then all object groups, then all tilesets, then makes
\* the final pass: no register_gid call follows a tileset's map_gid lookup,
\* and the final pass follows the last tileset.
C10_LoadOrdering ==
    /\ \A i, j \in 1 .. Len(trace) :
          i < j => Rank(trace[i].kind) <= Rank(trace[j].kind)
    /\ \A j \in 1 .. Len(trace) : \A c \in 1 .. Len(doc) :
          Rank(doc[c].kind) < Rank(trace[j].kind)
          => \E i \in 1 .. (j - 1) : trace[i].idx = c
    /\ \A i, j \in 1 .. Len(trace) :
          (i < j /\ trace[i].lookups > 0) => trace[j].regs = 0
    /\ pc = "returned" =>
          /\ trace[Len(trace)].kind = "merge"
          /\ \A c \in 1 .. Len(doc) :
                doc[c].kind = "tileset"
                => \E i \in 1 .. (Len(trace) - 1) : trace[i].idx = c

\* the document opens with a tileset and the image layer at its end was
\* visited first
C10_Witness ==
    /\ Len(doc) = 3
    /\ doc[1].kind = "tileset"
    /\ doc[2].kind = "tileset"
    /\ Len(trace) = 1
    /\ trace[1].kind = "imagelayer"
    /\ trace[1].idx = 3

\* from_xml returned a map after visiting two tilesets and making the final
\* pass
C10_WitnessReturned ==
    /\ pc = "returned"
    /\ Len(trace) = 3
    /\ trace[1].kind = "tileset" /\ trace[2].kind = "tileset"

(***************************************************************************)
(* Properties of Object.from_xml (checked under ObjectSpec).               *)
(***************************************************************************)
\* C11: an object declaring a nonzero raw GID r is built without error and
\* its gid is register(decode(r)): the compact GID a tile layer cell holding
\* r is assigned in the same map, the registry being left as that
\* registration leaves it.
C11_ObjectGidPath ==
    (obj_ret # <<>> /\ obj_node.gid # Word(0, 0))
    => LET r == obj_ret[1]
           d == decode_gid(obj_node.gid)
           want == register_gid(r.before, d.gid, d.flags)
           cell == FillGrid(0, 1, [vals |-> <<obj_node.gid>>,
                                   stop |-> "StopIteration"],
                            r.before, <<>>)
       IN  /\ r.exc = ""
           /\ r.elem.gid = want.ret
           /\ r.elem.gid = cell.cells[1]
           /\ self = want.m

\* the least and the greatest of a non-empty set of integers
Least(S) == CHOOSE a \in S : \A b \in S : a <= b
Greatest(S) == CHOOSE a \in S : \A b \in S : a >= b

\* C14: an object whose <polygon> or <polyline> declares a non-empty list
\* of points has width max(x) - min(x) and height max(y) - min(y) over the
\* declared points, and stores each declared point moved by the x and y of
\* the object.
C14_BoundingBox ==
    (/\ obj_ret # <<>>
     /\ obj_points # <<>>
     /\ obj_node.polygon # <<>> \/ obj_node.polyline # <<>>)
    => LET r == obj_ret[1]
           xs == {obj_points[i][1] : i \in 1 .. Len(obj_points)}
           ys == {obj_points[i][2] : i \in 1 .. Len(obj_points)}
       IN  /\ r.exc = ""
           /\ r.elem.has_points
           /\ r.elem.width = Greatest(xs) - Least(xs)
           /\ r.elem.height = Greatest(ys) - Least(ys)
           /\ r.elem.points =
                 [i \in 1 .. Len(obj_points) |->
                     <<obj_points[i][1] + obj_node.x,
                       obj_points[i][2] + obj_node.y>>]

(***************************************************************************)
(* Properties of the tile property table (checked under LoadSpec).         *)
(***************************************************************************)
\* the tile elements of the document that declare a <properties> block, as
\* (tileset position, tile position)
DeclaringTiles ==
    UNION {{<<i, k>> : k \in {j \in 1 .. Len(doc[i].tiles) :
                                doc[i].tiles[j].properties # <<>>}} :
           i \in {c \in 1 .. Len(doc) : doc[c].kind = "tileset"}}

\* a document of inline tilesets none of whose <tile> children declares a
\* <properties> block, one of them having a <tile> child
OnlyPlainTiles ==
    /\ OnlyTilesets
    /\ DeclaringTiles = {}
    /\ \E i \in 1 .. Len(doc) : doc[i].tiles # <<>>

C13_HandleBool ==
    bool_ret # <<>> =>
        IF text \in Numerals
        THEN bool_ret[1] =
                (IF \E i \in 1 .. Len(text) :
                        IsDigit(text[i]) /\ text[i] # "0"
                 THEN "True" ELSE "False")
        ELSE IF text \in TrueWords THEN bool_ret[1] = "True"
        ELSE IF text \in FalseWords THEN bool_ret[1] = "False"
        ELSE bool_ret[1] = "ValueError"

\* "FaLsE" was decoded to False
C13_Witness ==
    /\ text = <<"F", "a", "L", "s", "E">>
    /\ bool_ret = <<"False">>

\* "-00" within whitespace was decoded to False
C13_WitnessNumeral ==
    /\ text = <<" ", "-", "0", "0", "\n">>
    /\ bool_ret = <<"False">>

\* "maybe" raised
C13_WitnessError ==
    /\ text = <<"m", "a", "y", "b", "e">>
    /\ bool_ret = <<"ValueError">>

(***************************************************************************)
(* Properties of the two tables together (checked under Spec).             *)
(***************************************************************************)
\* the reverse list of a base GID: empty when gidmap has no such key
ReverseList(gm, b) == IF b \in DOMAIN gm THEN gm[b] ELSE <<>>
\* the places of an entry in the reverse list of a base GID
Places(b, entry) ==
    {i \in 1 .. Len(ReverseList(gidmap, b)) :
        ReverseList(gidmap, b)[i] = entry}
\* the keys of the forward table with a base GID other than 0
ForwardKeys == {k \in DOMAIN imagemap : k[1] # 0}
\* the base GIDs and the (compact_gid, flags) entries either table holds
KnownBases == {k[1] : k \in ForwardKeys} \cup (DOMAIN gidmap \ {0})
KnownEntries ==
    {imagemap[k] : k \in ForwardKeys}
    \cup UNION {{gidmap[b][i] : i \in 1 .. Len(gidmap[b])} : b \in DOMAIN gidmap}

\* C15: in every state reached by register_gid and map_gid calls on a fresh
\* map, (a) the forward table maps (b, f), b # 0, to compact GID g exactly
\* when (g, f) is in the reverse list of b, where it occurs once; (b) every
\* allocated compact GID is in 1 .. maxgid - 1 and maxgid is 1 plus the
\* number of allocated pairs; (c) a map_gid call changes neither the forward
\* table, nor the counter, nor the contents of the reverse list of any base
\* GID.
C15_TableConsistency ==
    /\ [](/\ \A b \in KnownBases : \A e \in KnownEntries :
                /\ (/\ <<b, e[2]>> \in ForwardKeys
                    /\ imagemap[<<b, e[2]>>] = e)
                   <=> Places(b, e) # {}
                /\ Cardinality(Places(b, e)) <= 1
          /\ 0 \in DOMAIN gidmap => gidmap[0] = <<>>
          /\ Allocated \subseteq 1 .. (maxgid - 1)
          /\ maxgid = 1 + Cardinality(ForwardKeys)
          /\ Cardinality(Allocated) = Cardinality(ForwardKeys))
    /\ [][(last'.op = "map_gid" /\ calls' = calls)
          => /\ imagemap' = imagemap
             /\ maxgid' = maxgid
             /\ \A b \in DOMAIN gidmap \cup DOMAIN gidmap' :
                   ReverseList(gidmap', b) = ReverseList(gidmap, b)]_vars

\* a base GID holds two allocations, one plain and one flipped, and map_gid
\* has just entered a base GID that was never registered into gidmap
C15_Witness ==
    /\ last.op = "map_gid"
    /\ last.list = <<>>
    /\ last.gid # 0
    /\ last.gid \in DOMAIN gidmap
    /\ \E b \in DOMAIN gidmap : Len(gidmap[b]) = 2
    /\ maxgid = 3

=============================================================================
